---- MODULE Spec2Model ----
(***************************************************************************)
(* git2_auth: the AuthHandler credential-negotiation state machine of      *)
(* src/src/auth_handler.rs.  One handler lives for one clone/fetch         *)
(* session; the transport calls handle_callback repeatedly on it.          *)
(***************************************************************************)
EXTENDS Integers, Sequences, FiniteSets, TLC

\* ------------------------------------------------------------------ bounds
\* longest username queue and longest SSH method queue handed to
\* AuthHandler::new
MaxSeedUsernames == 1
MaxSeedMethods == 1
\* number of handle_callback calls followed on one handler
MaxCalls == 4

\* --------------------------------------------------------------- constants
USERNAME_EMPTY == ""
USERNAME_GIT == "git"

\* git2::CredentialType bits the transport may allow
USERNAME == "USERNAME"
SSH_KEY == "SSH_KEY"
USER_PASS_PLAINTEXT == "USER_PASS_PLAINTEXT"
DEFAULT == "DEFAULT"
CredentialType == {USERNAME, SSH_KEY, USER_PASS_PLAINTEXT, DEFAULT}

\* Option<T>: None is the empty sequence, Some(x) the one-element sequence
None == <<>>
Some(x) == <<x>>

\* a string with an interior NUL byte, which CString::new rejects
NulName == "a<NUL>b"

\* what env::var("USER") yields: Some(name) when USER is set to a string,
\* None when it fails (USER unset; a value that is not valid Unicode fails
\* the same way and seeds the same queue).  The environment cannot hold a
\* NUL byte, so NulName is not among the names.
EnvUser == {None, Some(""), Some("git"), Some("alice")}
\* usernames a caller of AuthHandler::new may seed
SeedUsernames == {"alice", NulName}
\* username hints and urls the transport passes to the callback
Hints == {None, Some("alice"), Some(NulName)}
Urls == {"git@host:repo.git"}

\* enum SSHTrialMethod (the Host/File contexts are dead code: never read)
Agent == "Agent"
Host == "Host"
File == "File"
SSHTrialMethod == {Agent, Host, File}

\* all sequences over S of length at most n
SeqsUpTo(S, n) == UNION {[1..k -> S] : k \in 0..n}

\* ----------------------------------------------------------------- results
\* Result<git2::Cred, git2::Error>, or the unwinding panic of unimplemented!()
Cred(type, username) == [kind |-> "Cred", type |-> type, detail |-> username]
Err(message) == [kind |-> "Err", type |-> "git2::Error", detail |-> message]
Panic(message) == [kind |-> "Panic", type |-> "unimplemented", detail |-> message]
NoResult == [kind |-> "None", type |-> "", detail |-> ""]

UsernamesExhaustedMsg == "tried all possible usernames for the callback"
SshExhaustedMsg == "no ssh handler present for authentication"
MissingUsernameMsg == "username must be provided with SSH_KEY callback"
NulErrorMsg == "data contained a nul byte that could not be represented as a string"
UserPassPanicMsg == "not implemented: user-pass authentication implemented"
HostPanicMsg == "not implemented: SSH trial with host is not implemented"
FilePanicMsg == "not implemented: SSH trial with file is not implemented"

\* git2::Cred::username: fails only when the name cannot become a C string
Cred_username(username) ==
  IF username = NulName THEN Err(NulErrorMsg) ELSE Cred(USERNAME, username)

\* git2::Cred::ssh_key_from_agent: the same conversion, then an agent-backed
\* SSH_KEY credential object for that username
Cred_ssh_key_from_agent(username) ==
  IF username = NulName THEN Err(NulErrorMsg) ELSE Cred(SSH_KEY, username)

\* ------------------------------------------------------------- constructors
new(usernames, ssh_trial_methods, callback_url, callback_username) ==
  [usernames |-> usernames,
   ssh_trial_methods |-> ssh_trial_methods,
   callback_url |-> callback_url,
   callback_username |-> callback_username]

\* slip: env::var("USER").unwrap_or_default() pushed unconditionally
default_with_config_unwrap_or_default(env_user) ==
  LET usernames0 == <<USERNAME_EMPTY, USERNAME_GIT>>
      usernames == Append(usernames0,
                          IF env_user # None THEN env_user[1] ELSE "")
  IN  new(usernames, <<Agent>>, None, None)

default_with_config(env_user) ==
  LET usernames0 == <<USERNAME_EMPTY, USERNAME_GIT>>
      usernames == IF env_user # None
                   THEN Append(usernames0, env_user[1])
                   ELSE usernames0
  IN  new(usernames, <<Agent>>, None, None)

\* ------------------------------------------------------------------- queues
\* slip: pop_back instead of pop_front
get_next_username_pop_back(h) ==
  IF h.usernames = <<>>
  THEN [h |-> h, next |-> None]
  ELSE [h |-> [h EXCEPT !.usernames = SubSeq(@, 1, Len(@) - 1)],
        next |-> Some(h.usernames[Len(h.usernames)])]

\* VecDeque::pop_front on self.usernames
get_next_username(h) ==
  IF h.usernames = <<>>
  THEN [h |-> h, next |-> None]
  ELSE [h |-> [h EXCEPT !.usernames = Tail(@)], next |-> Some(Head(h.usernames))]

\* slip: front().cloned() instead of pop_front(), the method stays queued
get_next_ssh_trial_method_front(h) ==
  IF h.ssh_trial_methods = <<>>
  THEN [h |-> h, next |-> None]
  ELSE [h |-> h, next |-> Some(Head(h.ssh_trial_methods))]

\* VecDeque::pop_front on self.ssh_trial_methods
get_next_ssh_trial_method(h) ==
  IF h.ssh_trial_methods = <<>>
  THEN [h |-> h, next |-> None]
  ELSE [h |-> [h EXCEPT !.ssh_trial_methods = Tail(@)],
        next |-> Some(Head(h.ssh_trial_methods))]

\* ----------------------------------------------------------------- handlers
\* slip: the collaborator's error replaced by the handler's own
\* (map_err to the exhaustion error)
handle_username_callback_wrap_error(h) ==
  LET popped == get_next_username(h)
      cred == IF popped.next = None THEN NoResult
              ELSE Cred_username(popped.next[1])
  IN  IF popped.next = None
      THEN [h |-> popped.h, result |-> Err(UsernamesExhaustedMsg),
            username |-> None, method |-> None]
      ELSE [h |-> popped.h,
            result |-> IF cred.kind = "Err"
                       THEN Err(UsernamesExhaustedMsg) ELSE cred,
            username |-> popped.next, method |-> None]

\* slip: a username whose credential could not be built is pushed back
handle_username_callback_requeue(h) ==
  LET popped == get_next_username(h)
      cred == IF popped.next = None THEN NoResult
              ELSE Cred_username(popped.next[1])
  IN  IF popped.next = None
      THEN [h |-> popped.h, result |-> Err(UsernamesExhaustedMsg),
            username |-> None, method |-> None]
      ELSE [h |-> IF cred.kind = "Err"
                  THEN [popped.h EXCEPT !.usernames = Append(@, popped.next[1])]
                  ELSE popped.h,
            result |-> cred,
            username |-> popped.next, method |-> None]

\* besides the handler and the returned value, `username` and `method` tell
\* which queue entry, if any, the call took and tried
handle_username_callback(h) ==
  LET popped == get_next_username(h)
  IN  IF popped.next = None
      THEN [h |-> popped.h, result |-> Err(UsernamesExhaustedMsg),
            username |-> None, method |-> None]
      ELSE [h |-> popped.h, result |-> Cred_username(popped.next[1]),
            username |-> popped.next, method |-> None]

\* slip: the two Option<&String> arguments confused, the agent is asked
\* for the url
SSHTrialMethod_handle_callback_url(method, callback_url, callback_username) ==
  CASE method = Agent ->
         IF callback_url = None
         THEN Err(MissingUsernameMsg)
         ELSE Cred_ssh_key_from_agent(callback_url[1])
    [] method = Host -> Panic(HostPanicMsg)
    [] method = File -> Panic(FilePanicMsg)

SSHTrialMethod_handle_callback(method, callback_url, callback_username) ==
  CASE method = Agent ->
         IF callback_username = None
         THEN Err(MissingUsernameMsg)
         ELSE Cred_ssh_key_from_agent(callback_username[1])
    [] method = Host -> Panic(HostPanicMsg)
    [] method = File -> Panic(FilePanicMsg)

\* slip: an empty method queue is re-seeded with Agent for the next call
handle_ssh_callback_reseed(h) ==
  LET popped == get_next_ssh_trial_method(h)
  IN  IF popped.next = None
      THEN [h |-> [popped.h EXCEPT !.ssh_trial_methods = <<Agent>>],
            result |-> Err(SshExhaustedMsg),
            username |-> None, method |-> None]
      ELSE [h |-> popped.h,
            result |-> SSHTrialMethod_handle_callback(
                         popped.next[1], popped.h.callback_url,
                         popped.h.callback_username),
            username |-> None, method |-> popped.next]

handle_ssh_callback(h) ==
  LET popped == get_next_ssh_trial_method(h)
  IN  IF popped.next = None
      THEN [h |-> popped.h, result |-> Err(SshExhaustedMsg),
            username |-> None, method |-> None]
      ELSE [h |-> popped.h,
            result |-> SSHTrialMethod_handle_callback(
                         popped.next[1], popped.h.callback_url,
                         popped.h.callback_username),
            username |-> None, method |-> popped.next]

\* slip: the user-pass stub tested before SSH_KEY
handle_callback_plaintext_first(h, url, username, allowed) ==
  LET h1 == [h EXCEPT !.callback_username = username,
                      !.callback_url = Some(url)]
  IN  IF USERNAME \in allowed THEN handle_username_callback(h1)
      ELSE IF USER_PASS_PLAINTEXT \in allowed
      THEN [h |-> h1, result |-> Panic(UserPassPanicMsg),
            username |-> None, method |-> None]
      ELSE IF SSH_KEY \in allowed THEN handle_ssh_callback(h1)
      ELSE [h |-> h1, result |-> Panic(UserPassPanicMsg),
            username |-> None, method |-> None]

\* slip: the SSH trial as the fall-through branch, SSH_KEY not tested
handle_callback_ssh_fallthrough(h, url, username, allowed) ==
  LET h1 == [h EXCEPT !.callback_username = username,
                      !.callback_url = Some(url)]
  IN  IF USERNAME \in allowed THEN handle_username_callback(h1)
      ELSE handle_ssh_callback(h1)

\* slip: an empty username queue lets the call go on to the SSH trial
handle_callback_username_fallback(h, url, username, allowed) ==
  LET h1 == [h EXCEPT !.callback_username = username,
                      !.callback_url = Some(url)]
  IN  IF USERNAME \in allowed /\ (h.usernames # <<>> \/ SSH_KEY \notin allowed)
      THEN handle_username_callback(h1)
      ELSE IF SSH_KEY \in allowed THEN handle_ssh_callback(h1)
      ELSE [h |-> h1, result |-> Panic(UserPassPanicMsg),
            username |-> None, method |-> None]

\* slip: a failed username trial is followed by the SSH trial in the same
\* call (or_else)
handle_callback_try_both(h, url, username, allowed) ==
  LET h1 == [h EXCEPT !.callback_username = username,
                      !.callback_url = Some(url)]
      first == handle_username_callback(h1)
      second == handle_ssh_callback(first.h)
  IN  IF USERNAME \in allowed
      THEN IF first.result.kind = "Err" /\ SSH_KEY \in allowed
           THEN [h |-> second.h, result |-> second.result,
                 username |-> first.username, method |-> second.method]
           ELSE first
      ELSE IF SSH_KEY \in allowed THEN handle_ssh_callback(h1)
      ELSE [h |-> h1, result |-> Panic(UserPassPanicMsg),
            username |-> None, method |-> None]

\* slip: the recorded hint is only overwritten by a hint that is present
handle_callback_keep_hint(h, url, username, allowed) ==
  LET h1 == [h EXCEPT !.callback_username =
                        IF username # None THEN username ELSE @,
                      !.callback_url = Some(url)]
  IN  IF USERNAME \in allowed THEN handle_username_callback(h1)
      ELSE IF SSH_KEY \in allowed THEN handle_ssh_callback(h1)
      ELSE [h |-> h1, result |-> Panic(UserPassPanicMsg),
            username |-> None, method |-> None]

\* AuthHandler::handle_callback: record the hint and the url, then dispatch
handle_callback(h, url, username, allowed) ==
  LET h1 == [h EXCEPT !.callback_username = username,
                      !.callback_url = Some(url)]
  IN  IF USERNAME \in allowed THEN handle_username_callback(h1)
      ELSE IF SSH_KEY \in allowed THEN handle_ssh_callback(h1)
      ELSE [h |-> h1, result |-> Panic(UserPassPanicMsg),
            username |-> None, method |-> None]

\* -------------------------------------------------------------------- state
VARIABLES
  handler,            \* the AuthHandler
  seeded,             \* how it was constructed, and its queues at that time
  calls,              \* number of handle_callback calls made so far
  last_allowed,       \* the allowed set of the latest call
  result,             \* what the latest call returned
  username_results,   \* results of the calls whose allowed set had USERNAME
  offered_usernames,  \* usernames taken and tried so far, in order
  offered_ssh,        \* SSH trial methods taken and tried so far, in order
  collaborator_calls, \* calls that reached a git2::Cred constructor
  last_url,           \* the url argument of the latest call
  last_username,      \* the username argument (the hint) of the latest call
  hint_erased,        \* the latest call passed None over a recorded Some hint
  sessions            \* two handlers of one process (SpecTwo only)

vars == <<handler, seeded, calls, last_allowed, result, username_results,
          offered_usernames, offered_ssh, collaborator_calls,
          last_url, last_username, hint_erased, sessions>>

\* the variables of the single handler
handler_vars == <<handler, seeded, calls, last_allowed, result,
                  username_results, offered_usernames, offered_ssh,
                  collaborator_calls, last_url, last_username, hint_erased>>

\* no second handler exists
NoSessions == <<>>

Seeded(ctor, env_user, h) ==
  [ctor |-> ctor, env_user |-> env_user,
   usernames |-> h.usernames, ssh_trial_methods |-> h.ssh_trial_methods]

InitDefault ==
  \E env_user \in EnvUser :
    /\ handler = default_with_config(env_user)
    /\ seeded = Seeded("default_with_config", env_user, handler)

InitNew ==
  \E usernames \in SeqsUpTo(SeedUsernames, MaxSeedUsernames),
     ssh_trial_methods \in SeqsUpTo(SSHTrialMethod, MaxSeedMethods) :
    /\ handler = new(usernames, ssh_trial_methods, None, None)
    /\ seeded = Seeded("new", None, handler)

Init ==
  /\ InitDefault \/ InitNew
  /\ calls = 0
  /\ last_allowed = {}
  /\ result = NoResult
  /\ username_results = <<>>
  /\ offered_usernames = <<>>
  /\ offered_ssh = <<>>
  /\ collaborator_calls = 0
  /\ last_url = None
  /\ last_username = None
  /\ hint_erased = FALSE
  /\ sessions = NoSessions

\* whether the call got as far as git2::Cred::username / ssh_key_from_agent
ReachedCollaborator(r) ==
  \/ r.kind = "Cred"
  \/ r.kind = "Err" /\ r.detail = NulErrorMsg

\* the transport invokes the credentials callback once
HandleCallback(url, username, allowed) ==
  \E out \in {handle_callback(handler, url, username, allowed)} :
      /\ calls < MaxCalls
      /\ handler' = out.h
      /\ result' = out.result
      /\ last_allowed' = allowed
      /\ calls' = calls + 1
      /\ username_results' = IF USERNAME \in allowed
                             THEN Append(username_results, out.result)
                             ELSE username_results
      /\ offered_usernames' = offered_usernames \o out.username
      /\ offered_ssh' = offered_ssh \o out.method
      /\ collaborator_calls' =
           collaborator_calls + (IF ReachedCollaborator(out.result) THEN 1 ELSE 0)
      /\ last_url' = Some(url)
      /\ last_username' = username
      /\ hint_erased' = (username = None /\ handler.callback_username # None)
      /\ UNCHANGED <<seeded, sessions>>

Next ==
  \E url \in Urls, username \in Hints, allowed \in SUBSET CredentialType :
    HandleCallback(url, username, allowed)

Spec == Init /\ [][Next]_vars

\* The same handler called for two different urls.  The url is only
\* recorded, so the allowed sets are cut down to one or two per dispatch
\* branch: username trial, SSH trial, both allowed, neither allowed.
TwoUrls == {"git@host:repo.git", "https://host/repo.git"}
BranchAllowed == {{USERNAME}, {SSH_KEY}, {USERNAME, SSH_KEY}, {DEFAULT}}

NextUrls ==
  \E url \in TwoUrls, username \in Hints, allowed \in BranchAllowed :
    HandleCallback(url, username, allowed)

SpecUrls == Init /\ [][NextUrls]_vars

\* ------------------------------------------------------------ two handlers
\* Two handlers built by default_with_config in one process, called in any
\* interleaving.  The VecDeques live in a heap and a handler holds their
\* addresses, so that whether two handlers share a queue is a fact of the
\* constructor and not of the notation.
Instances == {1, 2}
\* USER as each construction finds it
TwoEnvUser == {None, Some("alice")}
TwoHints == {None, Some("alice")}

\* slip: the default queues kept in one static shared by every handler
Alloc_static(i) == [usernames |-> 1, ssh_trial_methods |-> 2]

\* each construction makes its own two VecDeques and moves them into Self
Alloc(i) == [usernames |-> 2 * i - 1, ssh_trial_methods |-> 2 * i]

Addresses ==
  {Alloc(i).usernames : i \in Instances}
    \cup {Alloc(i).ssh_trial_methods : i \in Instances}

\* the heap and the handlers after constructing the handler values built[i]
Constructed(built) ==
  [heap |->
     [a \in Addresses |->
        IF \E i \in Instances : Alloc(i).usernames = a
        THEN built[CHOOSE i \in Instances : Alloc(i).usernames = a].usernames
        ELSE built[CHOOSE i \in Instances : Alloc(i).ssh_trial_methods = a]
               .ssh_trial_methods],
   inst |->
     [i \in Instances |->
        [usernames |-> Alloc(i).usernames,
         ssh_trial_methods |-> Alloc(i).ssh_trial_methods,
         callback_url |-> built[i].callback_url,
         callback_username |-> built[i].callback_username]],
   alone |-> built,
   result |-> [i \in Instances |-> NoResult],
   alone_result |-> [i \in Instances |-> NoResult],
   calls |-> 0,
   last |-> 0]

\* handler i as a value: its fields, its queues read through their addresses
Load(ss, i) ==
  [usernames |-> ss.heap[ss.inst[i].usernames],
   ssh_trial_methods |-> ss.heap[ss.inst[i].ssh_trial_methods],
   callback_url |-> ss.inst[i].callback_url,
   callback_username |-> ss.inst[i].callback_username]

InitTwo ==
  /\ \E env1 \in TwoEnvUser, env2 \in TwoEnvUser :
       sessions = Constructed(<<default_with_config(env1),
                                default_with_config(env2)>>)
  /\ handler = default_with_config(None)
  /\ seeded = Seeded("default_with_config", None, handler)
  /\ calls = 0
  /\ last_allowed = {}
  /\ result = NoResult
  /\ username_results = <<>>
  /\ offered_usernames = <<>>
  /\ offered_ssh = <<>>
  /\ collaborator_calls = 0
  /\ last_url = None
  /\ last_username = None
  /\ hint_erased = FALSE

\* the transport of session i invokes the callback of handler i; `alone` and
\* `alone_result` follow the same calls on a handler value nobody else holds
CallOn(i, url, username, allowed) ==
  \E out \in {handle_callback(Load(sessions, i), url, username, allowed)},
     solo \in {handle_callback(sessions.alone[i], url, username, allowed)} :
      /\ sessions.calls < MaxCalls
      /\ sessions' =
           [heap |-> [sessions.heap EXCEPT
                        ![sessions.inst[i].usernames] = out.h.usernames,
                        ![sessions.inst[i].ssh_trial_methods] =
                          out.h.ssh_trial_methods],
            inst |-> [sessions.inst EXCEPT
                        ![i].callback_url = out.h.callback_url,
                        ![i].callback_username = out.h.callback_username],
            alone |-> [sessions.alone EXCEPT ![i] = solo.h],
            result |-> [sessions.result EXCEPT ![i] = out.result],
            alone_result |-> [sessions.alone_result EXCEPT ![i] = solo.result],
            calls |-> sessions.calls + 1,
            last |-> i]
      /\ UNCHANGED handler_vars

NextTwo ==
  \E i \in Instances, url \in Urls, username \in TwoHints,
     allowed \in BranchAllowed :
    CallOn(i, url, username, allowed)

SpecTwo == InitTwo /\ [][NextTwo]_vars

TypeOK ==
  /\ calls \in 0..MaxCalls
  /\ last_allowed \subseteq CredentialType
  /\ result.kind \in {"None", "Cred", "Err", "Panic"}

\* ------------------------------------------------------------------ claims
\* the step is one handle_callback call
Called == calls' = calls + 1
\* the call dispatched to handle_ssh_callback
SshCall == Called /\ SSH_KEY \in last_allowed' /\ USERNAME \notin last_allowed'
\* no element occurs twice in s
NoRepeat(s) == \A i, j \in 1..Len(s) : i # j => s[i] # s[j]

\* C1: on a handler built by default_with_config with USER set, the first
\* three calls whose allowed set contains USERNAME return username
\* credentials for "", "git" and the value of USER, in that order, and the
\* fourth fails with the usernames-exhausted error.
C1_DefaultUsernameOrder ==
  (seeded.ctor = "default_with_config" /\ seeded.env_user # None) =>
    /\ Len(username_results) >= 1 => username_results[1] = Cred(USERNAME, "")
    /\ Len(username_results) >= 2 => username_results[2] = Cred(USERNAME, "git")
    /\ Len(username_results) >= 3 =>
         username_results[3] = Cred(USERNAME, seeded.env_user[1])
    /\ Len(username_results) >= 4 =>
         username_results[4] = Err(UsernamesExhaustedMsg)

C1_Witness ==
  /\ seeded.ctor = "default_with_config"
  /\ seeded.env_user = Some("alice")
  /\ Len(username_results) = 4

\* C2: on a handler built by default_with_config with USER unset the
\* username queue is exactly ["", "git"]: the USERNAME calls succeed for ""
\* and then "git", and the third returns the usernames-exhausted error.
C2_DefaultUnsetEnv ==
  (seeded.ctor = "default_with_config" /\ seeded.env_user = None) =>
    /\ seeded.usernames = <<"", "git">>
    /\ Len(username_results) >= 1 => username_results[1] = Cred(USERNAME, "")
    /\ Len(username_results) >= 2 => username_results[2] = Cred(USERNAME, "git")
    /\ Len(username_results) >= 3 =>
         username_results[3] = Err(UsernamesExhaustedMsg)

C2_Witness ==
  /\ seeded.ctor = "default_with_config"
  /\ seeded.env_user = None
  /\ Len(username_results) = 3
  /\ handler.callback_username = None

\* C3: a username or SSH method that one call offered is never offered
\* again by a later call, for any seeding and any value of USER.
C3_NeverOfferedAgain ==
  /\ NoRepeat(offered_usernames)
  /\ NoRepeat(offered_ssh)

\* C4: a call whose allowed set is exactly {DEFAULT} returns the
\* default-credential collaborator's result (a DEFAULT credential or an
\* error), and a second consecutive such call returns ExhaustedError.
C4_DefaultOnce ==
  [][(Called /\ last_allowed' = {DEFAULT}) =>
       /\ result'.kind \in {"Cred", "Err"}
       /\ result'.kind = "Cred" => result'.type = DEFAULT
       /\ (calls >= 1 /\ last_allowed = {DEFAULT}) =>
            result' = Err("tried all possible credential kinds for authentication")
    ]_vars

\* C5: a call whose allowed set has SSH_KEY and USER_PASS_PLAINTEXT but not
\* USERNAME, made while the SSH queue is non-empty, runs the SSH trial (pops
\* exactly the front method and returns that method's result) and does not
\* reach the user-pass branch.
C5_SshBeforePlaintext ==
  [][(SshCall /\ USER_PASS_PLAINTEXT \in last_allowed'
        /\ handler.ssh_trial_methods # <<>>) =>
       /\ handler'.ssh_trial_methods = Tail(handler.ssh_trial_methods)
       /\ offered_ssh' = Append(offered_ssh, Head(handler.ssh_trial_methods))
       /\ handler'.usernames = handler.usernames
       /\ result' # Panic(UserPassPanicMsg)
       /\ Head(handler.ssh_trial_methods) = Agent =>
            \/ result' = Err(MissingUsernameMsg)
                 /\ handler'.callback_username = None
            \/ result' = Err(NulErrorMsg)
                 /\ handler'.callback_username = Some(NulName)
            \/ result'.kind = "Cred" /\ result'.type = SSH_KEY
                 /\ handler'.callback_username = Some(result'.detail)
    ]_vars

C5_Witness ==
  /\ last_allowed = {SSH_KEY, USER_PASS_PLAINTEXT}
  /\ calls = 1
  /\ offered_ssh = <<Agent>>
  /\ result = Cred(SSH_KEY, "alice")

\* C6 as stated: with SSH queue [Agent], after an SSH_KEY call without a
\* hint failed with MissingUsernameError, a following SSH_KEY call with the
\* hint "alice" performs the agent trial for "alice" and succeeds.
C6_AgentRetrySucceeds ==
  [][(SshCall /\ seeded.ssh_trial_methods = <<Agent>>
        /\ result = Err(MissingUsernameMsg)
        /\ handler'.callback_username = Some("alice")) =>
       result' = Cred(SSH_KEY, "alice")
    ]_vars

\* C6 amended: an SSH_KEY call without a hint that finds Agent at the front
\* fails with MissingUsernameError and consumes that entry; with SSH queue
\* [Agent] a following SSH_KEY call with a hint therefore returns the
\* SSH-exhausted error; the agent trial with the supplied username runs (and
\* succeeds for a well-formed name) only while an Agent entry is at the front.
C6_AgentConsumedByMissingUsername ==
  [][SshCall =>
       /\ (handler.ssh_trial_methods # <<>>
             /\ Head(handler.ssh_trial_methods) = Agent
             /\ handler'.callback_username = None) =>
            /\ result' = Err(MissingUsernameMsg)
            /\ handler'.ssh_trial_methods = Tail(handler.ssh_trial_methods)
       /\ (seeded.ssh_trial_methods = <<Agent>>
             /\ result = Err(MissingUsernameMsg)
             /\ handler'.callback_username # None) =>
            result' = Err(SshExhaustedMsg)
       /\ (handler.ssh_trial_methods # <<>>
             /\ Head(handler.ssh_trial_methods) = Agent
             /\ handler'.callback_username = Some("alice")) =>
            result' = Cred(SSH_KEY, "alice")
    ]_vars

C6_Witness ==
  /\ seeded.ssh_trial_methods = <<Agent>>
  /\ calls = 2
  /\ username_results = <<>>
  /\ collaborator_calls = 0
  /\ offered_ssh = <<Agent>>
  /\ handler.callback_username = Some("alice")
  /\ result = Err(SshExhaustedMsg)

\* C7: on a handler whose SSH queue is [Agent], the call
\* (url, Some("alice"), {SSH_KEY}) returns the agent credential for exactly
\* "alice"; a second identical call returns the SSH-exhausted error, a
\* returned failure that differs from the all-kinds ExhaustedError and from
\* the collaborator's error.
C7_AgentThenSshExhausted ==
  [][(Called /\ last_allowed' = {SSH_KEY}
        /\ handler'.callback_username = Some("alice")) =>
       /\ handler.ssh_trial_methods = <<Agent>> =>
            /\ result' = Cred(SSH_KEY, "alice")
            /\ handler'.ssh_trial_methods = <<>>
       /\ (handler.ssh_trial_methods = <<>>
             /\ last_allowed = {SSH_KEY}
             /\ handler.callback_username = Some("alice")
             /\ result = Cred(SSH_KEY, "alice")) =>
            /\ result'.kind = "Err"
            /\ result'.detail = SshExhaustedMsg
            /\ result'.detail \notin
                 {"tried all possible credential kinds for authentication",
                  NulErrorMsg}
    ]_vars

C7_Witness ==
  /\ seeded.ssh_trial_methods = <<Agent>>
  /\ calls = 2
  /\ username_results = <<>>
  /\ collaborator_calls = 1
  /\ last_allowed = {SSH_KEY}
  /\ handler.callback_username = Some("alice")
  /\ result = Err(SshExhaustedMsg)

\* C8: a credential returned by handle_callback is of a kind contained in
\* the allowed set of that same call.
C8_CredentialKindAllowed ==
  result.kind = "Cred" => result.type \in last_allowed

C8_Witness ==
  /\ result = Cred(SSH_KEY, "alice")
  /\ last_allowed = {SSH_KEY, DEFAULT}

\* C9: a call whose allowed set contains none of USERNAME, SSH_KEY,
\* USER_PASS_PLAINTEXT and DEFAULT (the empty set) returns the ExhaustedError
\* failure value.
C9_ExhaustedErrorReturned ==
  (calls >= 1 /\ last_allowed = {}) =>
    result = Err("tried all possible credential kinds for authentication")

\* C10: with allowed sets drawn from {USERNAME, SSH_KEY, DEFAULT}, at most
\* initial usernames + initial SSH methods + 1 calls return a credential or
\* reach a collaborator, and once both queues are empty and a DEFAULT call has
\* been made every call returns an exhaustion failure.
C10_NoInfiniteRetry ==
  /\ [](collaborator_calls <=
          Len(seeded.usernames) + Len(seeded.ssh_trial_methods) + 1)
  /\ [][(Called /\ last_allowed' \subseteq {USERNAME, SSH_KEY, DEFAULT}
           /\ handler.usernames = <<>> /\ handler.ssh_trial_methods = <<>>
           /\ calls >= 1 /\ last_allowed = {DEFAULT}) =>
          /\ result'.kind = "Err"
          /\ result'.detail \in
               {UsernamesExhaustedMsg, SshExhaustedMsg,
                "tried all possible credential kinds for authentication"}
       ]_vars

\* the call dispatched to handle_username_callback
UsernameCall == Called /\ USERNAME \in last_allowed'
\* the failures the handler builds itself, and the all-kinds ExhaustedError
OwnFailureMsgs ==
  {UsernamesExhaustedMsg, SshExhaustedMsg, MissingUsernameMsg,
   "tried all possible credential kinds for authentication"}

\* C11: a call whose allowed set has SSH_KEY and USER_PASS_PLAINTEXT but not
\* USERNAME, made while the SSH queue is empty, does not fail on the empty
\* queue: it returns the plaintext helper's result (a USER_PASS_PLAINTEXT
\* credential or the helper's error).
C11_EmptySshFallsToPlaintext ==
  [][(SshCall /\ USER_PASS_PLAINTEXT \in last_allowed'
        /\ handler.ssh_trial_methods = <<>>) =>
       /\ result' # Err(SshExhaustedMsg)
       /\ result'.kind \in {"Cred", "Err"}
       /\ result'.kind = "Cred" => result'.type = USER_PASS_PLAINTEXT
    ]_vars

\* C12: a call whose allowed set contains USERNAME runs only the username
\* trial, whatever else is allowed: it never touches the SSH queue, and with
\* an empty username queue it returns the usernames-exhausted error even
\* when SSH_KEY is allowed and the SSH queue is non-empty.
C12_UsernameFirstNoFallback ==
  [][UsernameCall =>
       /\ handler'.ssh_trial_methods = handler.ssh_trial_methods
       /\ offered_ssh' = offered_ssh
       /\ IF handler.usernames = <<>>
          THEN /\ result' = Err(UsernamesExhaustedMsg)
               /\ handler'.usernames = <<>>
               /\ offered_usernames' = offered_usernames
          ELSE /\ handler'.usernames = Tail(handler.usernames)
               /\ offered_usernames' =
                    Append(offered_usernames, Head(handler.usernames))
               /\ \/ result' = Cred(USERNAME, Head(handler.usernames))
                  \/ result' = Err(NulErrorMsg)
    ]_vars

C12_Witness ==
  /\ {USERNAME, SSH_KEY} \subseteq last_allowed
  /\ result = Err(UsernamesExhaustedMsg)
  /\ handler.ssh_trial_methods = <<Agent>>
  /\ offered_ssh = <<>>

\* C13: when the method popped by an SSH_KEY call is Host or File, the call
\* returns a not-implemented failure as an error value; it does not panic.
C13_UnimplementedMethodReturnsError ==
  [][(SshCall /\ handler.ssh_trial_methods # <<>>
        /\ Head(handler.ssh_trial_methods) \in {Host, File}) =>
       /\ result'.kind = "Err"
       /\ result'.detail \notin OwnFailureMsgs
    ]_vars

\* C15: one call consumes at most one option in total: a username call
\* leaves the SSH queue unchanged, an SSH call leaves the username queue
\* unchanged, any other call leaves both unchanged, and the queue the call
\* works on loses at most its front entry.
C15_OneOptionPerCall ==
  [][Called =>
       /\ (Len(handler.usernames) - Len(handler'.usernames))
            + (Len(handler.ssh_trial_methods) - Len(handler'.ssh_trial_methods))
            \in {0, 1}
       /\ Len(offered_usernames') + Len(offered_ssh')
            - (Len(offered_usernames) + Len(offered_ssh)) \in {0, 1}
       /\ \/ handler'.usernames = handler.usernames
          \/ handler.usernames # <<>>
               /\ handler'.usernames = Tail(handler.usernames)
       /\ \/ handler'.ssh_trial_methods = handler.ssh_trial_methods
          \/ handler.ssh_trial_methods # <<>>
               /\ handler'.ssh_trial_methods = Tail(handler.ssh_trial_methods)
       /\ UsernameCall =>
            handler'.ssh_trial_methods = handler.ssh_trial_methods
       /\ SshCall => handler'.usernames = handler.usernames
       /\ (~UsernameCall /\ ~SshCall) =>
            /\ handler'.usernames = handler.usernames
            /\ handler'.ssh_trial_methods = handler.ssh_trial_methods
    ]_vars

C15_Witness ==
  /\ calls = 2
  /\ last_allowed = {USERNAME, SSH_KEY, DEFAULT}
  /\ offered_usernames = <<NulName>>
  /\ offered_ssh = <<>>
  /\ handler.ssh_trial_methods = <<Agent>>
  /\ result = Err(UsernamesExhaustedMsg)

\* C16: a call whose allowed set has USER_PASS_PLAINTEXT but neither
\* USERNAME nor SSH_KEY returns the plaintext helper's result (a
\* USER_PASS_PLAINTEXT credential or the helper's error).
C16_PlaintextHelperResult ==
  (calls >= 1 /\ USER_PASS_PLAINTEXT \in last_allowed
     /\ USERNAME \notin last_allowed /\ SSH_KEY \notin last_allowed) =>
    /\ result.kind \in {"Cred", "Err"}
    /\ result.kind = "Cred" => result.type = USER_PASS_PLAINTEXT

\* C17: when the collaborator called by handle_callback (username
\* credential, agent credential) fails, handle_callback returns exactly the
\* collaborator's error, and that error is none of the handler's own failures.
C17_CollaboratorErrorUnwrapped ==
  [][Called =>
       /\ (USERNAME \in last_allowed' /\ handler.usernames # <<>>
             /\ Cred_username(Head(handler.usernames)).kind = "Err") =>
            /\ result' = Cred_username(Head(handler.usernames))
            /\ result'.detail \notin OwnFailureMsgs
       /\ (SshCall /\ handler.ssh_trial_methods # <<>>
             /\ Head(handler.ssh_trial_methods) = Agent
             /\ handler'.callback_username # None
             /\ Cred_ssh_key_from_agent(handler'.callback_username[1]).kind = "Err") =>
            /\ result' = Cred_ssh_key_from_agent(handler'.callback_username[1])
            /\ result'.detail \notin OwnFailureMsgs
    ]_vars

C17_Witness ==
  /\ USERNAME \in last_allowed
  /\ offered_usernames = <<NulName>>
  /\ calls = 1
  /\ result = Err(NulErrorMsg)

C20_ExhaustionStable ==
  [][Called =>
       /\ result' \in {Err(UsernamesExhaustedMsg), Err(SshExhaustedMsg)} =>
            /\ handler'.usernames = handler.usernames
            /\ handler'.ssh_trial_methods = handler.ssh_trial_methods
            /\ offered_usernames' = offered_usernames
            /\ offered_ssh' = offered_ssh
       /\ handler.usernames = <<>> => handler'.usernames = <<>>
       /\ handler.ssh_trial_methods = <<>> => handler'.ssh_trial_methods = <<>>
       /\ (UsernameCall /\ handler.usernames = <<>>) =>
            result' = Err(UsernamesExhaustedMsg)
       /\ (SshCall /\ handler.ssh_trial_methods = <<>>) =>
            result' = Err(SshExhaustedMsg)
       /\ result' = Err(UsernamesExhaustedMsg) =>
            UsernameCall /\ handler.usernames = <<>>
       /\ result' = Err(SshExhaustedMsg) =>
            SshCall /\ handler.ssh_trial_methods = <<>>
    ]_vars

C20_Witness ==
  /\ calls = 3
  /\ seeded.ssh_trial_methods = <<Agent>>
  /\ offered_ssh = <<Agent>>
  /\ last_allowed = {SSH_KEY}
  /\ result = Err(SshExhaustedMsg)
  /\ collaborator_calls = 1
  /\ username_results = <<>>

\* C14: after every call, whichever branch ran and whatever it returned, the
\* recorded url is that call's url and the recorded hint is that call's
\* hint, a None hint erasing an earlier Some hint; so an agent trial sees
\* only the current call's hint: after a call with Some(u), an SSH_KEY call
\* with None that finds Agent at the front fails with MissingUsernameError.
C14_UrlAndHintOverwritten ==
  [][Called =>
       /\ handler'.callback_url = last_url'
       /\ handler'.callback_username = last_username'
       /\ hint_erased' => handler'.callback_username = None
       /\ (SshCall /\ handler.ssh_trial_methods # <<>>
             /\ Head(handler.ssh_trial_methods) = Agent
             /\ last_username' = None) =>
            result' = Err(MissingUsernameMsg)
    ]_vars

C14_Witness ==
  /\ calls = 2
  /\ hint_erased
  /\ last_url = Some("https://host/repo.git")
  /\ Len(username_results) = 1
  /\ last_allowed = {SSH_KEY}
  /\ offered_ssh = <<Agent>>
  /\ result = Err(MissingUsernameMsg)

\* C18: two separately constructed handlers share no mutable state: a call
\* on one leaves the other's username queue, SSH queue, recorded url and
\* recorded hint unchanged, and each handler returns, call by call, what it
\* would return if it ran alone, and is then in the state it would be in.
C18_InstancesIndependent ==
  /\ [](\A i \in Instances :
          /\ sessions.result[i] = sessions.alone_result[i]
          /\ Load(sessions, i) = sessions.alone[i])
  /\ [][\A i \in Instances :
          sessions'.last # i => Load(sessions', i) = Load(sessions, i)]_vars

C18_Witness ==
  /\ sessions.calls = 4
  /\ sessions.last = 2
  /\ Load(sessions, 1).usernames = <<"alice">>
  /\ Load(sessions, 2).usernames = <<>>
  /\ sessions.result[1] = Cred(USERNAME, "git")
  /\ sessions.result[2] = Cred(USERNAME, "git")

====
